---- MODULE Spec2Model ----
(***************************************************************************)
(* Producer / consumer image pipeline of drijksb/solemne2.                 *)
(*                                                                         *)
(* Two programs share the same thread functions and differ in the queue:   *)
(*   impl = "blocking"  src/concurrent_image_recorder.cpp (push waits on   *)
(*                      cv_full while the queue is full)                   *)
(*   impl = "evicting"  src/src/ThreadSafeQueue.cpp (push drops the front  *)
(*                      item of a full queue)                              *)
(* One generator thread, NumWriters writer threads and the main thread     *)
(* share one ThreadSafeQueue protected by one std::mutex and two           *)
(* condition variables (cv: not empty, cv_full: not full).                 *)
(***************************************************************************)
EXTENDS Integers, Sequences, FiniteSets, TLC

\* ---------------------------------------------------------------- bounds
\* Capacity of the queue in the model (the programs construct it with the
\* default argument, 100).
Capacity == 2
\* The generator produces at most this many frames before its clock expires.
MaxFrames == 3
\* Largest file size, in the model's unit, that a written frame has.
MaxFileSize == 2
\* Calls of finish() made when a caller is allowed to repeat it.
MaxFinishCalls == 2

\* --------------------------------------------------------- configuration
\* numWriterThreads: the run's -writers value (the programs accept 1..7).
NumWriters == 2

\* --------------------------------------------------------------- threads
GenThread == 0
Writers == 1..NumWriters
MainThread == NumWriters + 1
Threads == {GenThread} \cup Writers \cup {MainThread}

Impls == {"blocking", "evicting"}

VARIABLES
    impl,            \* which of the two queue implementations runs
    max_size,        \* size_t max_size, fixed by the queue's constructor
    obs,             \* a caller of size() or isDone(): its position and the value returned
    cfg,             \* main's locals: the arguments left to read, the parameters, the exit status
    queue,           \* std::queue<ImageData>: sequence numbers, front first
    done,            \* std::atomic<bool> done
    mutex,           \* set of threads owning std::mutex (empty: unlocked)
    cvWait,          \* threads blocked in cv.wait
    cvFullWait,      \* threads blocked in cv_full.wait
    genExpired,      \* steady_clock::now() >= endTime in the generator
    pcGen,           \* position of imageGeneratorThread
    frameCount,      \* generator's local frameCount
    statsImageCount, \* std::atomic<size_t> statsImageCount
    pushRet,         \* what the last push call returned
    pcW,             \* position of each imageWriterThread
    data,            \* each writer's ImageData data (sequence number)
    imagesWritten,   \* each writer's local imagesWritten
    imagesSaved,     \* std::atomic<size_t> imagesSaved (modular program)
    statsBytesWritten, \* std::atomic<size_t> statsBytesWritten
    imagesEnqueued,  \* std::atomic<size_t> imagesEnqueued (modular program's main)
    reported,        \* the counters as main loaded them for the final report
    pcMain,          \* position of main
    hist             \* record of what the calls did (observation only)

vars == <<impl, max_size, obs, cfg, queue, done, mutex, cvWait, cvFullWait, genExpired, pcGen,
          frameCount, statsImageCount, pushRet, pcW, data, imagesWritten,
          imagesSaved, statsBytesWritten, imagesEnqueued, reported, pcMain,
          hist>>

queueVars == <<queue, done, mutex, cvWait, cvFullWait>>
genVars == <<pcGen, frameCount, statsImageCount, pushRet>>
writerVars == <<pcW, data, imagesWritten, imagesSaved, statsBytesWritten>>

\* ------------------------------------------------- queue: pure operators
\* ThreadSafeQueue(size_t max_size = 100): the programs construct the queue
\* with the default argument, Capacity in the model.
DefaultMaxSize == Capacity

\* (variant) the wait predicate always lets the push through.
PushMayProceedAlways(q, d) == TRUE

\* Wait predicate of the blocking push: queue.size() < max_size || done.
PushMayProceed(q, d) == Len(q) < max_size \/ d

\* (variant) the finished check is missing.
PushRejectsNever(d) == FALSE

\* Both pushes, after the wait / the eviction: if (done) return (false).
PushRejects(d) == d

\* (variant) the fill test is off by one.
EvictNeededOffByOne(q, d) == Len(q) > max_size /\ ~d

\* Condition of the evicting push's first if: queue.size() >= max_size && !done.
EvictNeeded(q, d) == Len(q) >= max_size /\ ~d

\* (variant) the wait predicate forgets the finished flag.
PopMayProceedIgnoresDone(q, d) == q # <<>>

\* Wait predicate of pop: !queue.empty() || done.
PopMayProceed(q, d) == q # <<>> \/ d

\* (variant) the early return forgets to test for pending items.
PopExhaustedIgnoresQueue(q, d) == d

\* pop's early return: queue.empty() && done.
PopExhausted(q, d) == q = <<>> /\ d

\* (variant) the newest item is read instead of the oldest.
FrontIsBack(q) == q[Len(q)]

\* queue.front()
Front(q) == Head(q)

\* (variant) the front element is not removed.
PopFrontKeeps(q) == q

\* queue.pop(): removes the front element.
PopFront(q) == Tail(q)

\* (variant) the pushed item does not reach the queue.
PushBackDrops(q, x) == q

\* queue.push(data): appends at the back.
PushBack(q, x) == Append(q, x)

\* (variant) notify_one releases nobody.
NotifyOneWakesNone(ws) == {ws}

\* (variant) the lock is still held after the queue operation.
UnlockKeeps(m, t) == m

\* End of the scope of std::unique_lock<std::mutex> lock(mutex), or cv.wait
\* releasing it: thread t no longer owns the mutex.
Unlock(m, t) == m \ {t}

\* condition_variable::notify_one on wait set ws: the wait sets it may leave
\* (one waiter is released, any of them; nothing happens without waiters).
NotifyOne(ws) == IF ws = {} THEN {ws} ELSE {ws \ {t} : t \in ws}

\* (variant) notify_one is called where notify_all is meant.
NotifyAllWakesOne(ws) == IF ws = {} THEN {} ELSE ws \ {CHOOSE t \in ws : TRUE}

\* condition_variable::notify_all on wait set ws.
NotifyAll(ws) == {}

\* (variant) finish() notifies both condition variables.
FinishWakesBoth(ws, wsFull) == <<NotifyAll(ws), NotifyAll(wsFull)>>

\* finish() after releasing the lock: cv.notify_all(), and nothing on cv_full.
\* The pair of wait sets <<cv, cv_full>> it leaves.
FinishWakes(ws, wsFull) == <<NotifyAll(ws), wsFull>>

\* ------------------------------------------------- main: configuration
\* int targetFPS = 50; int runTime = 300; int imageWidth = 1920;
\* int imageHeight = 1280: the parameters before any argument is read.
DefaultFPS == 50
DefaultRunTime == 300
DefaultWidth == 1920
DefaultHeight == 1280
\* The largest -writers value main accepts.
MaxWriterThreads == 7

\* A command-line word is the sequence of its characters.
FlagHelp == <<"-", "h">>
FlagLongHelp == <<"-", "-", "h", "e", "l", "p">>
FlagFps == <<"-", "f", "p", "s">>
FlagTime == <<"-", "t", "i", "m", "e">>
FlagWriters == <<"-", "w", "r", "i", "t", "e", "r", "s">>
FlagDir == <<"-", "d", "i", "r">>
FlagWidth == <<"-", "w", "i", "d", "t", "h">>
FlagHeight == <<"-", "h", "e", "i", "g", "h", "t">>

Digits == {"0", "1", "2", "3", "4", "5", "6", "7", "8", "9"}

\* The value of a decimal digit character.
DigitVal(c) ==
    CASE c = "0" -> 0 [] c = "1" -> 1 [] c = "2" -> 2 [] c = "3" -> 3
      [] c = "4" -> 4 [] c = "5" -> 5 [] c = "6" -> 6 [] c = "7" -> 7
      [] c = "8" -> 8 [] c = "9" -> 9

\* std::stoi: the word without its optional sign.
StoiBody(s) == IF s # <<>> /\ Head(s) \in {"-", "+"} THEN Tail(s) ELSE s

\* std::stoi: the number read from the leading digits of s, after acc.
RECURSIVE StoiDigits(_, _)
StoiDigits(s, acc) ==
    IF s = <<>> \/ Head(s) \notin Digits
    THEN acc
    ELSE StoiDigits(Tail(s), 10 * acc + DigitVal(Head(s)))

\* std::stoi throws std::invalid_argument when no digit follows the sign.
StoiThrows(s) == StoiBody(s) = <<>> \/ Head(StoiBody(s)) \notin Digits

\* std::stoi(word): optional sign, then the leading digits; what follows
\* them is ignored.
Stoi(s) ==
    IF s # <<>> /\ Head(s) = "-"
    THEN 0 - StoiDigits(StoiBody(s), 0)
    ELSE StoiDigits(StoiBody(s), 0)

\* (variant) a rate of 0 is accepted.
PositiveRequiredAllowsZero(v) == v < 0

\* if (targetFPS <= 0), if (runTime <= 0), if (imageWidth <= 0),
\* if (imageHeight <= 0): the value is rejected.
PositiveRequired(v) == v <= 0

\* if (numWriterThreads <= 0 || numWriterThreads > 7): the value is rejected.
WritersRejected(n) == n <= 0 \/ n > MaxWriterThreads

\* main's locals once the pipeline runs with the parameters left at their
\* defaults and NumWriters writers.
StartedCfg ==
    [args |-> <<>>,                  \* argv[i..argc-1], the words not read yet
     targetFPS |-> DefaultFPS,
     runTime |-> DefaultRunTime,
     numWriterThreads |-> NumWriters,
     imageWidth |-> DefaultWidth,
     imageHeight |-> DefaultHeight,
     constructed |-> TRUE,           \* ThreadSafeQueue imageQueue exists
     i |-> NumWriters,               \* index of the loop that starts the writers
     status |-> 0]                   \* main's return value

\* ---------------------------------------------------------------- Init
\* (variant) the queue is constructed already finished.
DoneAtConstructionSet == TRUE

\* std::atomic<bool> done{false}.
DoneAtConstruction == FALSE

\* No call of size() or isDone() is in progress.
NoCall == [pc |-> "idle", size |-> 0, isDone |-> FALSE]

\* Nothing has been observed yet.
NoHistory ==
    [appended |-> <<>>,      \* sequence numbers appended, in order
     handed |-> <<>>,        \* sequence number returned by each successful pop, in order
     evicted |-> <<>>,       \* sequence numbers removed by an evicting push
     pushIssuedDone |-> FALSE, \* done when the current push was called
     pushBlocked |-> FALSE,  \* the current push has waited on cv_full
     pushAppended |-> FALSE, \* the last push appended its item
     pushEvicted |-> FALSE,  \* the last push evicted an item
     pendingAtFinish |-> <<>>, \* queue when finish() set done
     handedAtFinish |-> 0,   \* Len(handed) when finish() set done
     popFalse |-> 0,         \* pop calls that returned false
     sunk |-> {},            \* sequence numbers handed to the sink
     sunkTwice |-> FALSE,    \* some sequence number reached the sink twice
     generated |-> <<>>,     \* sequence number of each generated frame, in order
     finishCalls |-> 0,      \* calls of finish() so far
     finishCallers |-> {},   \* threads that have called finish()
     rejected |-> 0,         \* pushes that returned without appending (done)
     failures |-> 0,         \* sink calls that returned failure
     successes |-> 0,        \* sink calls that returned success
     bytesOut |-> 0,         \* file sizes of the successful sink calls, added up
     failedBy |-> {},        \* writers with a failed sink call
     recovered |-> {}]       \* writers with a successful sink call after a failed one

\* The threads have just been started on a new queue.
ThreadsStarted ==
    /\ impl \in Impls
    /\ obs = NoCall
    /\ cfg = StartedCfg
    /\ queue = <<>>
    /\ done = DoneAtConstruction
    /\ mutex = {}
    /\ cvWait = {}
    /\ cvFullWait = {}
    /\ genExpired = FALSE
    /\ pcGen = "loop"
    /\ frameCount = 0
    /\ statsImageCount = 0
    /\ pushRet = "none"
    /\ pcW = [w \in Writers |-> "pop_lock"]
    /\ data = [w \in Writers |-> 0]
    /\ imagesWritten = [w \in Writers |-> 0]
    /\ imagesSaved = 0
    /\ statsBytesWritten = 0
    /\ imagesEnqueued = 0
    /\ reported = [generated |-> 0, enqueued |-> 0, saved |-> 0, bytes |-> 0]
    /\ pcMain = "sleep"
    /\ hist = NoHistory

Init ==
    /\ max_size = DefaultMaxSize
    /\ ThreadsStarted

\* ------------------------------------------------ imageGeneratorThread
\* The generator's clock passes endTime = startTime + runDuration.
ClockExpire ==
    /\ ~genExpired
    /\ genExpired' = TRUE
    /\ UNCHANGED <<impl, max_size, obs, cfg, imagesEnqueued, reported, queueVars, genVars, writerVars, pcMain, hist>>

\* (variant) the loop does not look at the clock.
LoopContinuesAlways(expired) == TRUE

\* The loop test steady_clock::now() < endTime, expired meaning now >= endTime.
LoopContinues(expired) == ~expired

\* while (steady_clock::now() < endTime): enter the body.
GenLoopEnter ==
    /\ pcGen = "loop"
    /\ LoopContinues(genExpired)
    /\ frameCount < MaxFrames
    /\ pcGen' = "generate"
    /\ UNCHANGED <<impl, max_size, obs, cfg, imagesEnqueued, reported, queueVars, genExpired, frameCount, statsImageCount,
                   pushRet, writerVars, pcMain, hist>>

\* while (steady_clock::now() < endTime): the condition fails, the thread ends.
GenLoopExit ==
    /\ pcGen = "loop"
    /\ ~LoopContinues(genExpired)
    /\ pcGen' = "done"
    /\ UNCHANGED <<impl, max_size, obs, cfg, imagesEnqueued, reported, queueVars, genExpired, frameCount, statsImageCount,
                   pushRet, writerVars, pcMain, hist>>

\* generateRandomImage returns and queue.push(ImageData(img, frameCount)) is called.
GenGenerate ==
    /\ pcGen = "generate"
    /\ pcGen' = "push_lock"
    /\ pushRet' = "none"
    /\ hist' = [hist EXCEPT !.pushIssuedDone = done, !.pushBlocked = FALSE,
                            !.pushAppended = FALSE, !.pushEvicted = FALSE,
                            !.generated = Append(@, frameCount)]
    /\ UNCHANGED <<impl, max_size, obs, cfg, imagesEnqueued, reported, queueVars, genExpired, frameCount, statsImageCount,
                   writerVars, pcMain>>

\* push: std::unique_lock<std::mutex> lock(mutex).
PushLock ==
    /\ pcGen = "push_lock"
    /\ mutex = {}
    /\ mutex' = {GenThread}
    /\ pcGen' = "push_body"
    /\ UNCHANGED <<impl, max_size, obs, cfg, imagesEnqueued, reported, queue, done, cvWait, cvFullWait, genExpired, frameCount,
                   statsImageCount, pushRet, writerVars, pcMain, hist>>

\* push (blocking): cv_full.wait re-acquires the mutex after a wake-up.
PushRelock ==
    /\ pcGen = "push_wait"
    /\ GenThread \notin cvFullWait
    /\ mutex = {}
    /\ mutex' = {GenThread}
    /\ pcGen' = "push_body"
    /\ UNCHANGED <<impl, max_size, obs, cfg, imagesEnqueued, reported, queue, done, cvWait, cvFullWait, genExpired, frameCount,
                   statsImageCount, pushRet, writerVars, pcMain, hist>>

\* push of concurrent_image_recorder.cpp, holding the mutex:
\*   cv_full.wait(lock, [this]{ return queue.size() < max_size || done; });
\*   if (done) return;  queue.push(data);  cv.notify_one();
PushBlocking ==
    /\ impl = "blocking"
    /\ pcGen = "push_body"
    /\ mutex' = Unlock(mutex, GenThread)
    /\ IF ~PushMayProceed(queue, done)
       THEN /\ cvFullWait' = cvFullWait \cup {GenThread}
            /\ pcGen' = "push_wait"
            /\ hist' = [hist EXCEPT !.pushBlocked = TRUE]
            /\ UNCHANGED <<queue, cvWait, pushRet>>
       ELSE IF PushRejects(done)
       THEN /\ pcGen' = "count"
            /\ pushRet' = "void"
            /\ hist' = [hist EXCEPT !.rejected = @ + 1]
            /\ UNCHANGED <<queue, cvWait, cvFullWait>>
       ELSE /\ queue' = PushBack(queue, frameCount)
            /\ cvWait' \in NotifyOne(cvWait)
            /\ pcGen' = "count"
            /\ pushRet' = "void"
            /\ hist' = [hist EXCEPT !.pushAppended = TRUE,
                                    !.appended = Append(@, frameCount)]
            /\ UNCHANGED cvFullWait
    /\ UNCHANGED <<impl, max_size, obs, cfg, imagesEnqueued, reported, done, genExpired, frameCount, statsImageCount,
                   writerVars, pcMain>>

\* (variant) the eviction drops the newest pending item.
EvictNewest(q) == SubSeq(q, 1, Len(q) - 1)

\* queue.pop() inside the modular push: the oldest pending item is dropped.
EvictOldest(q) == Tail(q)

\* push of src/src/ThreadSafeQueue.cpp, holding the mutex:
\*   if (queue.size() >= max_size && !done) queue.pop();
\*   if (done) return false;  queue.push(data);  cv.notify_one();  return true;
\* (queue.pop() on an empty queue has no defined behaviour: PushEvictingEmpty.)
PushEvicting ==
    /\ impl = "evicting"
    /\ pcGen = "push_body"
    /\ ~(EvictNeeded(queue, done) /\ queue = <<>>)
    /\ mutex' = Unlock(mutex, GenThread)
    /\ pcGen' = "count"
    /\ LET evict == EvictNeeded(queue, done)
           q1 == IF evict THEN EvictOldest(queue) ELSE queue
           h1 == IF evict
                 THEN [hist EXCEPT !.pushEvicted = TRUE,
                                   !.evicted = Append(@, Front(queue))]
                 ELSE hist
       IN IF PushRejects(done)
          THEN /\ queue' = q1
               /\ pushRet' = "false"
               /\ hist' = [h1 EXCEPT !.rejected = @ + 1]
               /\ UNCHANGED cvWait
          ELSE /\ queue' = PushBack(q1, frameCount)
               /\ cvWait' \in NotifyOne(cvWait)
               /\ pushRet' = "true"
               /\ hist' = [h1 EXCEPT !.pushAppended = TRUE,
                                     !.appended = Append(@, frameCount)]
    /\ UNCHANGED <<impl, max_size, obs, cfg, imagesEnqueued, reported, done, cvFullWait, genExpired, frameCount,
                   statsImageCount, writerVars, pcMain>>

\* (variant) the frame counter advances by two.
NextFrameSkips(fc) == fc + 2

\* frameCount++.
NextFrame(fc) == fc + 1

\* frameCount++; statsImageCount++; then the pacing sleep, back to the loop test.
GenCount ==
    /\ pcGen = "count"
    /\ frameCount' = NextFrame(frameCount)
    /\ statsImageCount' = statsImageCount + 1
    /\ pcGen' = "loop"
    /\ UNCHANGED <<impl, max_size, obs, cfg, imagesEnqueued, reported, queueVars, genExpired, pushRet, writerVars, pcMain, hist>>

\* -------------------------------------------------- imageWriterThread
\* pop: std::unique_lock<std::mutex> lock(mutex).
PopLock(w) ==
    /\ pcW[w] = "pop_lock"
    /\ mutex = {}
    /\ mutex' = {w}
    /\ pcW' = [pcW EXCEPT ![w] = "pop_body"]
    /\ UNCHANGED <<impl, max_size, obs, cfg, imagesEnqueued, reported, queue, done, cvWait, cvFullWait, genExpired, genVars,
                   data, imagesWritten, imagesSaved, statsBytesWritten,
                   pcMain, hist>>

\* pop: cv.wait re-acquires the mutex after a wake-up.
PopRelock(w) ==
    /\ pcW[w] = "pop_wait"
    /\ w \notin cvWait
    /\ mutex = {}
    /\ mutex' = {w}
    /\ pcW' = [pcW EXCEPT ![w] = "pop_body"]
    /\ UNCHANGED <<impl, max_size, obs, cfg, imagesEnqueued, reported, queue, done, cvWait, cvFullWait, genExpired, genVars,
                   data, imagesWritten, imagesSaved, statsBytesWritten,
                   pcMain, hist>>

\* (variant) a pop that returns false resets the caller's item.
ResultOnFalseCleared(r) == 0

\* if (queue.empty() && done) return false; comes before any assignment to
\* result: the caller's item r is what it was.
ResultOnFalse(r) == r

\* pop (the same in both programs), holding the mutex:
\*   cv.wait(lock, [this]{ return !queue.empty() || done; });
\*   if (queue.empty() && done) return false;
\*   result = queue.front();  queue.pop();  cv_full.notify_one();  return true;
PopBody(w) ==
    /\ pcW[w] = "pop_body"
    /\ mutex' = Unlock(mutex, w)
    /\ IF ~PopMayProceed(queue, done)
       THEN /\ cvWait' = cvWait \cup {w}
            /\ pcW' = [pcW EXCEPT ![w] = "pop_wait"]
            /\ UNCHANGED <<queue, cvFullWait, data, hist>>
       ELSE IF PopExhausted(queue, done)
       THEN /\ pcW' = [pcW EXCEPT ![w] = "done"]
            /\ data' = [data EXCEPT ![w] = ResultOnFalse(@)]
            /\ hist' = [hist EXCEPT !.popFalse = @ + 1]
            /\ UNCHANGED <<queue, cvWait, cvFullWait>>
       ELSE /\ data' = [data EXCEPT ![w] = Front(queue)]
            /\ queue' = PopFront(queue)
            /\ cvFullWait' \in NotifyOne(cvFullWait)
            /\ pcW' = [pcW EXCEPT ![w] = "write"]
            /\ hist' = [hist EXCEPT !.handed = Append(@, Front(queue))]
            /\ UNCHANGED cvWait
    /\ UNCHANGED <<impl, max_size, obs, cfg, imagesEnqueued, reported, done, genExpired, genVars, imagesWritten, imagesSaved,
                   statsBytesWritten, pcMain>>

\* The characters operator<< writes for one decimal digit.
DigitChar == <<"0", "1", "2", "3", "4", "5", "6", "7", "8", "9">>

RECURSIVE Decimal(_)
\* operator<< of an unsigned integer: its decimal digits, most significant first.
Decimal(n) ==
    IF n < 10 THEN <<DigitChar[n + 1]>>
    ELSE Decimal(n \div 10) \o <<DigitChar[(n % 10) + 1]>>

\* std::setw(width) << std::setfill('0'): filled on the left up to width,
\* never truncated.
ZeroPad(str, width) ==
    IF Len(str) >= width THEN str
    ELSE [i \in 1..(width - Len(str)) |-> "0"] \o str

\* (variant) the name is built from the writer's id alone.
FilenameByWorkerOnly(seq, tid) ==
    <<"outputDir", "/img_">> \o <<"_t">> \o Decimal(tid) \o <<".jpg">>

\* filename << outputDir << "/img_" << setw(8) << setfill('0')
\*          << data.sequenceNumber << "_t" << threadId << ".jpg".
Filename(seq, tid) ==
    <<"outputDir", "/img_">> \o ZeroPad(Decimal(seq), 8) \o <<"_t">>
        \o Decimal(tid) \o <<".jpg">>

\* threads.emplace_back(imageWriterThread, ..., i + 1): the id given to the
\* i-th writer, i = 0 .. numWriterThreads - 1.
ThreadIdOf(i) == i + 1

\* std::filesystem::file_size(filePath): the size of the file written for
\* frame seq. It is determined by the frame's image; frames differ in size.
FileSize(seq) == 1 + (seq % MaxFileSize)

\* (variant) an increment that finds the counter already advanced is lost.
FetchAddLosesUpdate(n, k) == IF n > 0 THEN n ELSE n + k

\* std::atomic<size_t>::operator++ / operator+= (and ++ on a thread's own
\* local counter): one indivisible read-modify-write.
FetchAdd(n, k) == n + k

\* (variant) the statistics are updated whatever the sink returned.
AddedAlways(n, success, k) == FetchAdd(n, k)

\* if (success) { imagesWritten++; imagesSaved++; statsBytesWritten += fileSize; }:
\* a counter after the sink returned, k being the amount added on success.
Added(n, success, k) == IF success THEN FetchAdd(n, k) ELSE n

\* (variant) a failed write ends the writer's loop.
AfterSinkStopsOnFailure(success) == IF success THEN "pop_lock" ELSE "done"

\* End of the loop body, after the if (success) ... else ...: the writer goes
\* back to while (queue.pop(data)) whatever the sink returned.
AfterSink(success) == "pop_lock"

\* The sink call (cv::imwrite / writeJPEG_turbo) returns success or failure;
\* on success imagesWritten++ (and imagesSaved++ in the modular program) and
\* statsBytesWritten += fileSize.
Write(w) ==
    /\ pcW[w] = "write"
    /\ \E success \in BOOLEAN :
          /\ imagesWritten' = [imagesWritten EXCEPT ![w] = Added(@, success, 1)]
          /\ imagesSaved' = IF impl = "evicting"
                            THEN Added(imagesSaved, success, 1) ELSE imagesSaved
          /\ statsBytesWritten' = Added(statsBytesWritten, success, FileSize(data[w]))
          /\ hist' = [hist EXCEPT
                        !.sunk = @ \cup {data[w]},
                        !.sunkTwice = @ \/ data[w] \in hist.sunk,
                        !.failures = IF success THEN @ ELSE @ + 1,
                        !.successes = IF success THEN @ + 1 ELSE @,
                        !.bytesOut = IF success THEN @ + FileSize(data[w]) ELSE @,
                        !.failedBy = IF success THEN @ ELSE @ \cup {w},
                        !.recovered = IF success /\ w \in hist.failedBy
                                      THEN @ \cup {w} ELSE @]
          /\ pcW' = [pcW EXCEPT ![w] = AfterSink(success)]
    /\ UNCHANGED <<impl, max_size, obs, cfg, imagesEnqueued, reported, queueVars, genExpired, genVars, data, pcMain>>

\* ---------------------------------------------------------------- main
\* std::this_thread::sleep_for(runDuration) returns; imageQueue.finish() is called.
MainSleep ==
    /\ pcMain = "sleep"
    /\ pcMain' = "finish_lock"
    /\ UNCHANGED <<impl, max_size, obs, cfg, imagesEnqueued, reported, queueVars, genExpired, genVars, writerVars, hist>>

\* finish: std::unique_lock<std::mutex> lock(mutex).
FinishLock ==
    /\ pcMain = "finish_lock"
    /\ mutex = {}
    /\ mutex' = {MainThread}
    /\ pcMain' = "finish_set"
    /\ hist' = [hist EXCEPT !.finishCalls = @ + 1,
                            !.finishCallers = @ \cup {MainThread}]
    /\ UNCHANGED <<impl, max_size, obs, cfg, imagesEnqueued, reported, queue, done, cvWait, cvFullWait, genExpired, genVars,
                   writerVars>>

\* (variant) finish flips the flag.
FinishDoneToggles(d) == ~d

\* finish: done = true.
FinishDone(d) == TRUE

\* finish: done = true; the lock's scope ends.
FinishSet ==
    /\ pcMain = "finish_set"
    /\ done' = FinishDone(done)
    /\ mutex' = Unlock(mutex, MainThread)
    /\ pcMain' = "finish_notify"
    /\ hist' = [hist EXCEPT !.pendingAtFinish = queue,
                            !.handedAtFinish = Len(hist.handed)]
    /\ UNCHANGED <<impl, max_size, obs, cfg, imagesEnqueued, reported, queue, cvWait, cvFullWait, genExpired, genVars, writerVars>>

\* (variant) main calls finish() again after it returned.
AfterFinishAgain == "finish_lock"

\* imageQueue.finish(); is followed by the join loop.
AfterFinish == "join"

\* finish: cv.notify_all(); finish returns and main starts joining.
FinishNotify ==
    /\ pcMain = "finish_notify"
    /\ cvWait' = FinishWakes(cvWait, cvFullWait)[1]
    /\ cvFullWait' = FinishWakes(cvWait, cvFullWait)[2]
    /\ pcMain' = AfterFinish
    /\ UNCHANGED <<impl, max_size, obs, cfg, imagesEnqueued, reported, queue, done, mutex, genExpired, genVars, writerVars, hist>>

\* (variant) only the generator thread is joined.
JoinedGeneratorOnly(g, ws) == g = "done"

\* for (auto& thread : threads) thread.join(): the loop is through when the
\* generator (position g) and every writer in threads (positions ws; a
\* writer main did not start is not in threads) have ended.
Joined(g, ws) ==
    g = "done" /\ \A w \in Writers : ws[w] # "unstarted" => ws[w] = "done"

\* for (auto& thread : threads) thread.join(): returns when every thread ended.
MainJoin ==
    /\ pcMain = "join"
    /\ Joined(pcGen, pcW)
    /\ pcMain' = "report"
    /\ UNCHANGED <<impl, max_size, obs, cfg, imagesEnqueued, reported, queueVars, genExpired, genVars, writerVars, hist>>

\* The final report: statsImageCount.load(), statsBytesWritten.load() (and,
\* in the modular program, imagesEnqueued.load(), imagesSaved.load()) are
\* read and printed; main returns.
MainReport ==
    /\ pcMain = "report"
    /\ reported' = [generated |-> statsImageCount, enqueued |-> imagesEnqueued,
                    saved |-> imagesSaved, bytes |-> statsBytesWritten]
    /\ pcMain' = "exit"
    /\ UNCHANGED <<impl, max_size, obs, cfg, imagesEnqueued, queueVars, genExpired, genVars, writerVars, hist>>

\* ------------------------------------------------- condition variables
\* std::condition_variable::wait may return without a notification
\* (a spurious wake-up); the waiter then re-evaluates its predicate.
SpuriousWake ==
    \/ /\ \E t \in cvWait : cvWait' = cvWait \ {t}
       /\ UNCHANGED cvFullWait
       /\ UNCHANGED <<impl, max_size, obs, cfg, imagesEnqueued, reported, queue, done, mutex, genExpired, genVars, writerVars,
                      pcMain, hist>>
    \/ /\ \E t \in cvFullWait : cvFullWait' = cvFullWait \ {t}
       /\ UNCHANGED cvWait
       /\ UNCHANGED <<impl, max_size, obs, cfg, imagesEnqueued, reported, queue, done, mutex, genExpired, genVars, writerVars,
                      pcMain, hist>>

GenStep ==
    \/ GenLoopEnter
    \/ GenLoopExit
    \/ GenGenerate
    \/ PushLock
    \/ PushRelock
    \/ PushBlocking
    \/ PushEvicting
    \/ GenCount

WriterStep(w) ==
    \/ PopLock(w)
    \/ PopRelock(w)
    \/ PopBody(w)
    \/ Write(w)

MainStep ==
    \/ MainSleep
    \/ FinishLock
    \/ FinishSet
    \/ FinishNotify
    \/ MainJoin
    \/ MainReport

Next ==
    \/ ClockExpire
    \/ GenStep
    \/ \E w \in Writers : WriterStep(w)
    \/ MainStep
    \/ SpuriousWake

Spec == Init /\ [][Next]_vars

\* A caller that repeats imageQueue.finish() after it has returned (the
\* programs call it once; the queue accepts any number of calls).
Refinish ==
    /\ pcMain = "join"
    /\ hist.finishCalls < MaxFinishCalls
    /\ pcMain' = "finish_lock"
    /\ UNCHANGED <<impl, max_size, obs, cfg, imagesEnqueued, reported, queueVars, genExpired, genVars, writerVars, hist>>

RefinishNext ==
    \/ Next
    \/ Refinish

\* The program with a main that may call finish() repeatedly.
RefinishSpec == Init /\ [][RefinishNext]_vars

\* ------------------------------------------ main: arguments and start-up
\* The flags whose value main converts with std::stoi.
IntFlags == {FlagFps, FlagTime, FlagWriters, FlagWidth, FlagHeight}

\* The check main applies to the value v read for flag.
Rejected(flag, v) ==
    IF flag = FlagWriters THEN WritersRejected(v) ELSE PositiveRequired(v)

\* The assignment main makes for flag: c with the parameter set to v.
SetParam(c, flag, v) ==
    CASE flag = FlagFps -> [c EXCEPT !.targetFPS = v]
      [] flag = FlagTime -> [c EXCEPT !.runTime = v]
      [] flag = FlagWriters -> [c EXCEPT !.numWriterThreads = v]
      [] flag = FlagWidth -> [c EXCEPT !.imageWidth = v]
      [] flag = FlagHeight -> [c EXCEPT !.imageHeight = v]

\* Command lines have at most this many options.
MaxOptions == 2

\* The -writers values tried: 0, every count the model has writers for,
\* and the first value above the accepted range.
WriterArgValues == {0, MaxWriterThreads + 1} \cup (1..NumWriters)

\* One option: a flag alone or a flag with its value.
Options ==
    {<<FlagHelp>>, <<<<"-", "x">>>>, <<FlagFps>>, <<FlagDir, <<"d">>>>}
    \cup {<<FlagFps, v>> : v \in {Decimal(0), <<"-">> \o Decimal(1),
                                  Decimal(DefaultFPS), <<"x">>}}
    \cup {<<FlagTime, v>> : v \in {Decimal(0), Decimal(DefaultRunTime)}}
    \cup {<<FlagWriters, Decimal(n)>> : n \in WriterArgValues}
    \cup {<<FlagWidth, v>> : v \in {Decimal(0), Decimal(DefaultWidth)}}
    \cup {<<FlagHeight, v>> : v \in {Decimal(0), Decimal(DefaultHeight)}}

\* The command lines (argv[1..argc-1]) of at most k options.
RECURSIVE OptionLists(_)
OptionLists(k) ==
    IF k = 0 THEN {<<>>}
    ELSE LET shorter == OptionLists(k - 1)
         IN  shorter \cup {a \o b : a \in Options, b \in shorter}

ArgLists == OptionLists(MaxOptions)

\* Everything but main's own position and locals, and the threads' positions.
pipelineVars == <<impl, max_size, obs, queue, done, mutex, cvWait, cvFullWait, genExpired,
                  frameCount, statsImageCount, pushRet, data, imagesWritten,
                  imagesSaved, statsBytesWritten, imagesEnqueued, reported, hist>>

\* main is entered: nothing is constructed, no thread runs, the parameters
\* hold their defaults and the command line is still to be read.
ConfigInit ==
    /\ impl \in Impls
    /\ obs = NoCall
    /\ max_size = DefaultMaxSize
    /\ cfg \in {[StartedCfg EXCEPT !.args = a, !.constructed = FALSE, !.i = 0] :
                  a \in ArgLists}
    /\ queue = <<>>
    /\ done = DoneAtConstruction
    /\ mutex = {}
    /\ cvWait = {}
    /\ cvFullWait = {}
    /\ genExpired = FALSE
    /\ pcGen = "unstarted"
    /\ frameCount = 0
    /\ statsImageCount = 0
    /\ pushRet = "none"
    /\ pcW = [w \in Writers |-> "unstarted"]
    /\ data = [w \in Writers |-> 0]
    /\ imagesWritten = [w \in Writers |-> 0]
    /\ imagesSaved = 0
    /\ statsBytesWritten = 0
    /\ imagesEnqueued = 0
    /\ reported = [generated |-> 0, enqueued |-> 0, saved |-> 0, bytes |-> 0]
    /\ pcMain = "args"
    /\ hist = NoHistory

\* One iteration of for (int i = 1; i < argc; i++): -h returns 0; a flag
\* with a value converts it (an exception of std::stoi is not caught and
\* ends the process), assigns it and returns 1 when the check rejects it;
\* anything else, a flag without its value included, returns 1.
ParseArg ==
    /\ pcMain = "args"
    /\ cfg.args # <<>>
    /\ LET arg == Head(cfg.args)
           hasValue == Len(cfg.args) >= 2
           rest == Tail(Tail(cfg.args))
       IN  IF arg \in {FlagHelp, FlagLongHelp}
           THEN /\ cfg' = [cfg EXCEPT !.status = 0]
                /\ pcMain' = "return"
           ELSE IF arg \in IntFlags /\ hasValue
           THEN IF StoiThrows(cfg.args[2])
                THEN /\ cfg' = cfg
                     /\ pcMain' = "terminate"
                ELSE LET v == Stoi(cfg.args[2])
                         c == [SetParam(cfg, arg, v) EXCEPT !.args = rest]
                     IN  IF Rejected(arg, v)
                         THEN /\ cfg' = [c EXCEPT !.status = 1]
                              /\ pcMain' = "return"
                         ELSE /\ cfg' = c
                              /\ pcMain' = "args"
           ELSE IF arg = FlagDir /\ hasValue
           THEN /\ cfg' = [cfg EXCEPT !.args = rest]
                /\ pcMain' = "args"
           ELSE /\ cfg' = [cfg EXCEPT !.status = 1]
                /\ pcMain' = "return"
    /\ UNCHANGED <<pipelineVars, pcGen, pcW>>

\* if (!createDirectoryIfNotExists(outputDir)) return 1; after the last
\* argument.
MakeDir ==
    /\ pcMain = "args"
    /\ cfg.args = <<>>
    /\ \E created \in BOOLEAN :
          IF created
          THEN /\ pcMain' = "construct"
               /\ cfg' = cfg
          ELSE /\ pcMain' = "return"
               /\ cfg' = [cfg EXCEPT !.status = 1]
    /\ UNCHANGED <<pipelineVars, pcGen, pcW>>

\* ThreadSafeQueue imageQueue; and the counters.
Construct ==
    /\ pcMain = "construct"
    /\ cfg' = [cfg EXCEPT !.constructed = TRUE]
    /\ queue' = <<>>
    /\ done' = DoneAtConstruction
    /\ statsImageCount' = 0
    /\ statsBytesWritten' = 0
    /\ imagesEnqueued' = 0
    /\ imagesSaved' = 0
    /\ pcMain' = "start_gen"
    /\ max_size' = DefaultMaxSize
    /\ UNCHANGED <<impl, obs, mutex, cvWait, cvFullWait, genExpired, pcGen, frameCount,
                   pushRet, pcW, data, imagesWritten, reported, hist>>

\* threads.emplace_back(imageGeneratorThread, ...).
StartGenerator ==
    /\ pcMain = "start_gen"
    /\ pcGen' = "loop"
    /\ pcMain' = "start_writers"
    /\ UNCHANGED <<pipelineVars, cfg, pcW>>

\* (variant) the loop starts one writer fewer.
StartLoopStopsEarly(i, n) == i + 1 < n

\* for (int i = 0; i < numWriterThreads; i++): the loop condition.
StartLoopContinues(i, n) == i < n

\* threads.emplace_back(imageWriterThread, ..., i + 1); i++.
StartWriter ==
    /\ pcMain = "start_writers"
    /\ StartLoopContinues(cfg.i, cfg.numWriterThreads)
    /\ pcW' = [pcW EXCEPT ![cfg.i + 1] = "pop_lock"]
    /\ cfg' = [cfg EXCEPT !.i = @ + 1]
    /\ UNCHANGED <<pipelineVars, pcGen, pcMain>>

\* The start loop is through; main goes to sleep_for(runDuration).
StartDone ==
    /\ pcMain = "start_writers"
    /\ ~StartLoopContinues(cfg.i, cfg.numWriterThreads)
    /\ pcMain' = "sleep"
    /\ UNCHANGED <<pipelineVars, cfg, pcGen, pcW>>

ConfigNext ==
    \/ ParseArg
    \/ MakeDir
    \/ Construct
    \/ StartGenerator
    \/ StartWriter
    \/ StartDone
    \/ Next

\* The program from the entry of main.
ConfigSpec == ConfigInit /\ [][ConfigNext]_vars

\* A queue constructed with any capacity up to the default one, 0 included
\* (the constructor takes any size_t), used by the same threads.
AnyCapacityInit ==
    /\ max_size \in 0..DefaultMaxSize
    /\ ThreadsStarted

\* The modular push when its first if holds on an empty queue (max_size = 0):
\* queue.pop() on an empty std::queue is undefined behaviour.  The outcomes
\* modelled: the call has no visible effect and the push goes on; the
\* container's bookkeeping is off by one and the pushed item is not seen by
\* pop; the process is aborted.
PushEvictingEmpty ==
    /\ impl = "evicting"
    /\ pcGen = "push_body"
    /\ EvictNeeded(queue, done)
    /\ queue = <<>>
    /\ \/ /\ \E q \in {PushBack(queue, frameCount), queue} : queue' = q
          /\ mutex' = Unlock(mutex, GenThread)
          /\ cvWait' \in NotifyOne(cvWait)
          /\ pcGen' = "count"
          /\ pushRet' = "true"
          /\ hist' = [hist EXCEPT !.pushEvicted = TRUE,
                                  !.pushAppended = TRUE,
                                  !.appended = Append(@, frameCount)]
          /\ UNCHANGED <<pcW, pcMain>>
       \/ /\ pcGen' = "aborted"
          /\ pcW' = [w \in Writers |-> "aborted"]
          /\ pcMain' = "aborted"
          /\ hist' = [hist EXCEPT !.pushEvicted = TRUE]
          /\ UNCHANGED <<queue, mutex, cvWait, pushRet>>
    /\ UNCHANGED <<impl, max_size, obs, cfg, imagesEnqueued, reported, done, cvFullWait,
                   genExpired, frameCount, statsImageCount, data, imagesWritten,
                   imagesSaved, statsBytesWritten>>

AnyCapacityNext ==
    \/ Next
    \/ PushEvictingEmpty

\* The threads on a queue of any capacity.
AnyCapacitySpec == AnyCapacityInit /\ [][AnyCapacityNext]_vars

\* ------------------------------------------------------ size(), isDone()
\* A thread other than the generator, the writers and main, calling size()
\* and isDone() (the two programs never call them).
ObserverThread == NumWriters + 2

\* size: std::unique_lock<std::mutex> lock(mutex).
SizeLock ==
    /\ obs.pc = "idle"
    /\ mutex = {}
    /\ mutex' = {ObserverThread}
    /\ obs' = [obs EXCEPT !.pc = "size_body"]
    /\ UNCHANGED <<impl, max_size, cfg, queue, done, cvWait, cvFullWait, genExpired,
                   genVars, writerVars, imagesEnqueued, reported, pcMain, hist>>

\* size: return queue.size(); the lock's scope ends.
SizeReturn ==
    /\ obs.pc = "size_body"
    /\ mutex' = Unlock(mutex, ObserverThread)
    /\ obs' = [obs EXCEPT !.pc = "returned", !.size = Len(queue)]
    /\ UNCHANGED <<impl, max_size, cfg, queue, done, cvWait, cvFullWait, genExpired,
                   genVars, writerVars, imagesEnqueued, reported, pcMain, hist>>

\* isDone: return done; (a load of the atomic, without the mutex).
IsDone ==
    /\ obs.pc = "idle"
    /\ obs' = [obs EXCEPT !.pc = "returned", !.isDone = done]
    /\ UNCHANGED <<impl, max_size, cfg, queueVars, genExpired, genVars, writerVars,
                   imagesEnqueued, reported, pcMain, hist>>

\* The caller has used the returned value and may call again.
ObserverResume ==
    /\ obs.pc = "returned"
    /\ obs' = NoCall
    /\ UNCHANGED <<impl, max_size, cfg, queueVars, genExpired, genVars, writerVars,
                   imagesEnqueued, reported, pcMain, hist>>

ObserverStep ==
    \/ SizeLock
    \/ SizeReturn
    \/ IsDone
    \/ ObserverResume

ObserverNext ==
    \/ Next
    \/ ObserverStep

\* The program with one more thread that calls size() and isDone().
ObserverSpec == Init /\ [][ObserverNext]_vars

\* The generator and main are scheduled (a step they can take is eventually
\* taken) and a writer that holds the mutex inside pop finishes its critical
\* section.  Nothing else is required of the writers: they may stay in the
\* sink, or never be scheduled to start or resume a pop.  The generator's
\* clock need not expire and no wait need wake up without a notification.
CallerFairSpec ==
    /\ Spec
    /\ WF_vars(GenStep)
    /\ WF_vars(MainStep)
    /\ \A w \in Writers : WF_vars(PopBody(w))

\* Fair scheduling with a sink that always returns: every thread that can
\* take a step eventually takes it (a thread that needs the mutex gets it once
\* it stays free), main's finish() gets the mutex although the writers may
\* take it again and again, and the generator's clock eventually reaches
\* endTime.  No wait is required to wake up without a notification.
FairSpec ==
    /\ Spec
    /\ WF_vars(ClockExpire)
    /\ WF_vars(GenStep)
    /\ WF_vars(MainStep)
    /\ SF_vars(FinishLock)
    /\ \A w \in Writers : WF_vars(WriterStep(w))

TypeOK ==
    /\ impl \in Impls
    /\ max_size \in Nat
    /\ obs.pc \in {"idle", "size_body", "returned"}
    /\ cfg.status \in {0, 1}
    /\ cfg.i \in 0..NumWriters
    /\ done \in BOOLEAN
    /\ mutex \subseteq Threads
    /\ cvWait \subseteq Writers
    /\ cvFullWait \subseteq {GenThread}

\* ======================================================== properties
Range(sq) == {sq[i] : i \in DOMAIN sq}

\* How many times x occurs in sq.
Occurrences(x, sq) == Cardinality({i \in DOMAIN sq : sq[i] = x})

\* The items handed out by pop since finish() set done.
HandedSinceFinish == SubSeq(hist.handed, hist.handedAtFinish + 1, Len(hist.handed))

\* finish() has returned (main is past cv.notify_all()).
FinishReturned == pcMain \in {"join", "report", "exit"}

PushPcs == {"push_lock", "push_body", "push_wait"}
PopPcs == {"pop_lock", "pop_body", "pop_wait"}

\* C1 - Capacity invariant: in every reachable state, under any interleaving
\* of push, pop and finish, the number of pending items is at least 0 and at
\* most the capacity, for the blocking queue and for the evicting queue.
C1_CapacityInvariant ==
    /\ 0 <= Len(queue)
    /\ Len(queue) <= max_size

\* An evicting push has just run on a full queue and the queue is full again.
C1_Witness ==
    /\ impl = "evicting"
    /\ pcGen = "count"
    /\ hist.pushEvicted
    /\ hist.pushAppended
    /\ Len(queue) = max_size

\* C2 - No loss before finish: every item pushed while the queue is not
\* finished is returned by exactly one pop call once the workers have drained
\* the queue (stated on the final state of a run: all threads have ended).
C2_NoLossBeforeFinish ==
    pcMain = "report" =>
        \A i \in DOMAIN hist.appended :
            Occurrences(hist.appended[i], hist.handed) = 1

\* C3 - No double processing: each item is returned by at most one successful
\* pop, so no two workers, and no worker twice, hand the same item to the sink.
C3_NoDoubleProcessing ==
    /\ \A i, j \in DOMAIN hist.handed :
          i # j => hist.handed[i] # hist.handed[j]
    /\ ~hist.sunkTwice
    /\ \A w \in Writers : pcW[w] = "write" => data[w] \notin hist.sunk
    /\ \A w1, w2 \in Writers :
          (w1 # w2 /\ pcW[w1] = "write" /\ pcW[w2] = "write") => data[w1] # data[w2]

\* Two workers are inside the sink at the same time, after another item has
\* already been written.
C3_Witness ==
    /\ \E w1, w2 \in Writers : w1 # w2 /\ pcW[w1] = "write" /\ pcW[w2] = "write"
    /\ hist.sunk # {}

\* C4 - Drain-then-stop: if finish() is called while K items are pending, the
\* pops that succeed afterwards return exactly those K items in FIFO order
\* (what was handed out since, followed by what is still queued, is what was
\* pending), and once a pop has returned false the queue is empty and
\* finished, so every later pop returns false too.
C4_DrainThenStop ==
    /\ done => HandedSinceFinish \o queue = hist.pendingAtFinish
    /\ hist.popFalse > 0 => (done /\ queue = <<>>
                             /\ Len(HandedSinceFinish) = Len(hist.pendingAtFinish))

\* finish() found two items pending, both were popped afterwards and every
\* worker then got false.
C4_Witness ==
    /\ done
    /\ Len(hist.pendingAtFinish) = 2
    /\ HandedSinceFinish = hist.pendingAtFinish
    /\ hist.popFalse = NumWriters

\* C5 - Late-push rejection: a push issued after finish() set the flag returns
\* without blocking, with nothing appended and nothing evicted, whatever the
\* fill level; where push has a return value (the modular program) it is false.
C5_LatePushRejected ==
    (pcGen = "count" /\ hist.pushIssuedDone) =>
        /\ ~hist.pushAppended
        /\ ~hist.pushEvicted
        /\ ~hist.pushBlocked
        /\ pushRet # "true"
        /\ impl = "evicting" => pushRet = "false"

\* A push issued after finish() has returned, on a full queue.
C5_Witness ==
    /\ impl = "evicting"
    /\ pcGen = "count"
    /\ hist.pushIssuedDone
    /\ pushRet = "false"
    /\ Len(queue) = max_size

\* C6 - Backpressure (blocking queue): a push on a full, unfinished queue
\* blocks; the queue grows only by an append made while fewer than max_size
\* items are pending and the queue is not finished; a push that finds the
\* queue finished returns without appending; no step of the generator removes
\* or overwrites a pending item.
C6_Backpressure ==
    [][impl = "blocking" =>
        /\ (pcGen = "push_body" /\ pcGen' # pcGen /\ Len(queue) >= max_size /\ ~done)
              => (pcGen' = "push_wait" /\ GenThread \in cvFullWait' /\ queue' = queue)
        /\ (pcGen = "push_body" /\ pcGen' # pcGen /\ done)
              => (pcGen' = "count" /\ queue' = queue)
        /\ (pcGen' # pcGen /\ queue' # queue)
              => (/\ Len(queue) < max_size
                  /\ ~done
                  /\ queue' = Append(queue, frameCount)
                  /\ pcGen' = "count")
        /\ (queue' # queue /\ pcGen' = pcGen) => queue' = Tail(queue)
      ]_vars

\* A push that had to wait on the full queue has appended its item after a pop.
C6_Witness ==
    /\ impl = "blocking"
    /\ pcGen = "count"
    /\ hist.pushBlocked
    /\ hist.pushAppended
    /\ hist.handed # <<>>

\* C7 - pop returns false only when the queue is empty and finished; on an
\* empty, unfinished queue it blocks; whenever an item is pending it returns
\* the front item (ok = true), also after finish().
C7_PopResult ==
    [][\A w \in Writers :
          (pcW[w] = "pop_body" /\ pcW'[w] # pcW[w]) =>
              /\ (queue # <<>>) =>
                    (pcW'[w] = "write" /\ data'[w] = Head(queue) /\ queue' = Tail(queue))
              /\ (queue = <<>> /\ ~done) =>
                    (pcW'[w] = "pop_wait" /\ w \in cvWait' /\ data'[w] = data[w])
              /\ (queue = <<>> /\ done) => pcW'[w] = "done"
              /\ pcW'[w] = "done" => (queue = <<>> /\ done)
      ]_vars

\* After finish() one worker is writing an item it popped after finish(),
\* and another worker's pop has found the queue empty and returned false.
C7_Witness ==
    /\ done
    /\ Len(HandedSinceFinish) > 0
    /\ \E w \in Writers : pcW[w] = "write" /\ data[w] = hist.handed[Len(hist.handed)]
    /\ \E w \in Writers : pcW[w] = "done"

\* The appended items that no evicting push removed, in append order.
Kept == SelectSeq(hist.appended, LAMBDA x : x \notin Range(hist.evicted))

\* C8 - FIFO hand-off: the items leave the queue in the order they were
\* appended (what was handed out, followed by what is queued, is the appended
\* sequence without the evicted items), and the dequeued sequence numbers are
\* strictly increasing; only the order of the writes may differ.
C8_FifoHandOff ==
    /\ hist.handed \o queue = Kept
    /\ \A i, j \in DOMAIN hist.handed : i < j => hist.handed[i] < hist.handed[j]

\* Two items left the queue in order, and the second is written while the
\* worker holding the first is still inside the sink.
C8_Witness ==
    /\ Len(hist.handed) >= 2
    /\ hist.handed[2] \in hist.sunk
    /\ \E w \in Writers : pcW[w] = "write" /\ data[w] = hist.handed[1]

\* C9 - finish() wakes all blocked threads: when finish() has returned, no
\* thread is left blocked in cv.wait (pop) or in cv_full.wait (push).
C9_FinishWakesAll ==
    FinishReturned => (cvWait = {} /\ cvFullWait = {})

\* C10 - After finish() no queue call blocks indefinitely (the push half): a
\* push call that is pending when finish() has returned, or that starts
\* afterwards, returns once the generator is scheduled, whether or not any
\* other thread makes a later call; in particular a push blocked on a full
\* queue when finish() was called returns.
C10_NoBlockAfterFinish ==
    (FinishReturned /\ pcGen \in PushPcs) ~> (pcGen \notin PushPcs)

\* Every thread function has returned and main's join has completed.
AllJoined ==
    /\ pcMain \in {"report", "exit"}
    /\ pcGen = "done"
    /\ \A w \in Writers : pcW[w] = "done"

\* C11 - Clean shutdown: under fair scheduling and a sink that always
\* returns, once main has called finish() the generator and every writer
\* reach their terminal state and main's join of all threads completes.
C11_CleanShutdown ==
    (pcMain = "finish_lock") ~> AllJoined

\* The run has ended although finish() found the blocking queue full and the
\* generator's last push waiting on it.
C11_Witness ==
    /\ AllJoined
    /\ impl = "blocking"
    /\ Len(hist.pendingAtFinish) = max_size
    /\ hist.pushBlocked
    /\ ~hist.pushAppended

\* C12 - Producer early exit: once a push call has been rejected because the
\* queue is finished, the producer generates no further item and makes no
\* further push call: after the first rejected push it is never again
\* generating or pushing, and no second push is rejected.
C12_ProducerEarlyExit ==
    hist.rejected > 0 =>
        /\ hist.rejected = 1
        /\ pcGen \in {"count", "loop", "done"}

\* C13 - A sink failure is local to one item: the step in which the sink
\* reports failure to a worker increments neither a written-count nor the
\* bytes-written counter, leaves the worker running (it goes back to pop), and
\* changes nothing of the queue, of the producer, of main or of another worker.
C13_SinkFailureLocal ==
    [][\A w \in Writers :
          (pcW[w] = "write" /\ pcW'[w] # "write"
             /\ hist'.failures = hist.failures + 1)
          => /\ imagesWritten' = imagesWritten
             /\ imagesSaved' = imagesSaved
             /\ statsBytesWritten' = statsBytesWritten
             /\ pcW'[w] = "pop_lock"
             /\ \A v \in Writers \ {w} : pcW'[v] = pcW[v]
             /\ UNCHANGED <<impl, max_size, obs, cfg, imagesEnqueued, reported, queueVars, genExpired, genVars, data, pcMain>>]_vars

\* A worker whose sink call failed has since popped a later item and written
\* it successfully, and the failed item is in no count.
C13_Witness ==
    \E w \in Writers :
        /\ w \in hist.recovered
        /\ hist.failures = 1
        /\ imagesWritten[w] = 1
        /\ statsBytesWritten = FileSize(data[w])
        /\ \A v \in Writers \ {w} : imagesWritten[v] = 0

RECURSIVE SumOver(_, _)
\* Sum of f[x] over the finite set S.
SumOver(f, S) ==
    IF S = {} THEN 0
    ELSE LET x == CHOOSE y \in S : TRUE IN f[x] + SumOver(f, S \ {x})

\* Items written so far: the modular program's aggregate imagesSaved, the
\* monolith's per-writer imagesWritten added up.
ItemsWritten ==
    IF impl = "evicting" THEN imagesSaved ELSE SumOver(imagesWritten, Writers)

\* Items enqueued >= items written (the modular program has the counter).
WrittenWithinEnqueued == impl = "evicting" => imagesEnqueued >= ItemsWritten

\* Items written <= items generated.
WrittenWithinGenerated == ItemsWritten <= statsImageCount

\* C14 - Statistics conservation: in every reachable state, items enqueued >=
\* items written and items written <= items generated, whatever the
\* interleaving of the generator's and the writers' counter updates.
C14_StatsConservation ==
    /\ WrittenWithinEnqueued
    /\ WrittenWithinGenerated

\* C15 - Statistics equality at the end of a run: when all threads have
\* joined and no sink call has failed, items written equals items generated
\* and (in the modular program, which has the counter) items enqueued.
C15_EndOfRunEquality ==
    (AllJoined /\ hist.failures = 0) =>
        /\ ItemsWritten = statsImageCount
        /\ impl = "evicting" => ItemsWritten = imagesEnqueued

\* C16 - Sequence numbers: the k-th frame the generator produces carries
\* sequence number k-1, whether or not its push was accepted, so no two frames
\* share a number; and the numbers held by the queue, handed out by pop and
\* given to the sink are numbers of generated, appended frames, unchanged.
C16_SequenceNumbers ==
    /\ \A k \in DOMAIN hist.generated : hist.generated[k] = k - 1
    /\ Range(hist.appended) \subseteq Range(hist.generated)
    /\ Range(queue) \subseteq Range(hist.appended)
    /\ Range(hist.handed) \subseteq Range(hist.appended)
    /\ hist.sunk \subseteq Range(hist.handed)
    /\ \A w \in Writers : pcW[w] = "write" => data[w] \in Range(hist.handed)

\* The first frame was accepted and has reached the sink, the push of the
\* second was rejected, and the third frame generated after it carries 2.
C16_Witness ==
    /\ hist.appended = <<0>>
    /\ 0 \in hist.sunk
    /\ hist.rejected >= 1
    /\ Len(hist.generated) = 3
    /\ hist.generated[3] = 2

\* C17 - Output identifiers never collide: the identifier is a function of
\* (sequence number, writer id), the writer ids are the pairwise distinct
\* 1..N, and the identifier a writer is passing to the sink differs from the
\* one any other writer would build for the same frame, from that of every
\* earlier sink call whichever writer made it, and from that of every sink
\* call in progress in another writer.
C17_NoNameCollision ==
    /\ Writers = {ThreadIdOf(i) : i \in 0..(NumWriters - 1)}
    /\ \A i, j \in 0..(NumWriters - 1) : ThreadIdOf(i) = ThreadIdOf(j) => i = j
    /\ \A w \in Writers : pcW[w] = "write" =>
          /\ \A v \in Writers, x \in hist.sunk :
                Filename(data[w], w) # Filename(x, v)
          /\ \A v \in Writers \ {w} :
                /\ Filename(data[w], w) # Filename(data[w], v)
                /\ pcW[v] = "write" => Filename(data[w], w) # Filename(data[v], v)

\* A writer that has already written one frame is passing the name of another
\* frame to the sink while a different writer is inside the sink as well.
C17_Witness ==
    \E w, v \in Writers :
        /\ w # v
        /\ pcW[w] = "write"
        /\ pcW[v] = "write"
        /\ imagesWritten[w] = 1
        /\ Cardinality(hist.sunk) = 1
        /\ Filename(data[w], w) = <<"outputDir", "/img_", "0", "0", "0", "0", "0", "0",
                                    "0", "2", "_t">> \o Decimal(w) \o <<".jpg">>

\* C18 - finish() is called exactly once per run, by main only and only after
\* its sleep has returned: no call while main sleeps or waits for the lock,
\* exactly one from then on, never by the generator (also not after its loop
\* has ended) nor by a writer, and done is set by nothing else.
C18_FinishOnceByMain ==
    /\ hist.finishCallers \subseteq {MainThread}
    /\ hist.finishCalls = IF pcMain \in {"sleep", "finish_lock"} THEN 0 ELSE 1
    /\ done => hist.finishCalls = 1
    /\ pcMain = "sleep" => ~done

\* The generator's loop has completed and its thread has ended, and done is
\* still false while main is inside its one call of finish().
C18_Witness ==
    /\ pcGen = "done"
    /\ pcMain = "finish_set"
    /\ hist.finishCalls = 1
    /\ ~done
    /\ Len(hist.generated) = MaxFrames

\* C19 - As its header documents, push of the modular program blocks when the
\* queue is full: a push that finds max_size items pending and the queue not
\* finished waits, leaving the queue as it is, until there is space or the
\* queue is finished.
C19_ModularPushBlocks ==
    [][(impl = "evicting" /\ pcGen = "push_body" /\ pcGen' # pcGen
          /\ Len(queue) >= max_size /\ ~done)
       => (pcGen' = "push_wait" /\ queue' = queue)]_vars

\* C20 - The finished flag is monotonic: done is false when the queue is
\* created, and no step of any thread (push, pop, finish, or anything else)
\* takes it from true back to false.
C20_DoneMonotonic ==
    /\ ~done
    /\ [][done => done']_vars

\* After finish() set done, pushes were rejected, pops drained the queue and
\* returned false, and done is still true at the end of the run.
C20_Witness ==
    /\ AllJoined
    /\ done
    /\ hist.rejected >= 1
    /\ hist.pendingAtFinish # <<>>
    /\ hist.popFalse = NumWriters

\* C21 - finish() is idempotent: every step of a second or further call of
\* finish() leaves the pending items, their order and done = true as the
\* first call left them and wakes nobody, so that the wait predicates and the
\* results of all later push and pop calls are those after one call.
C21_FinishIdempotent ==
    [][(hist.finishCalls >= 2 /\ pcMain \in {"finish_set", "finish_notify"}
          /\ pcMain' # pcMain)
       => /\ done /\ done'
          /\ queue' = queue
          /\ cvWait' = cvWait
          /\ cvFullWait' = cvFullWait
          /\ PushRejects(done') = PushRejects(done)
          /\ PushMayProceed(queue', done') = PushMayProceed(queue, done)
          /\ EvictNeeded(queue', done') = EvictNeeded(queue, done)
          /\ PopMayProceed(queue', done') = PopMayProceed(queue, done)
          /\ PopExhausted(queue', done') = PopExhausted(queue, done)]_vars

\* A second call of finish() has returned while items are still pending.
C21_Witness ==
    /\ hist.finishCalls = 2
    /\ pcMain = "join"
    /\ done
    /\ Len(queue) = max_size

\* The step is a pop that returned an item.
PopTookItem == \E w \in Writers : pcW[w] = "pop_body" /\ pcW'[w] = "write"

\* The step is a push that appended its item.
PushAppendedItem == pcGen = "push_body" /\ pcGen' = "count" /\ queue' # queue

\* The generator is inside push and the queue has room for its item.
PushHasRoom ==
    /\ pcGen \in {"push_wait", "push_body"}
    /\ GenThread \notin cvFullWait
    /\ Len(queue) < max_size

\* C22 - No deadlock while the blocking queue is open: a successful pop
\* leaves room and releases the generator blocked in push, which from then on
\* does not wait again and, the queue still open, appends its item; a push
\* that appends releases one consumer blocked in pop and finish() releases
\* all of them; and under fair scheduling no thread stays blocked in a wait.
C22_NoDeadlockWhileOpen ==
    /\ [][impl = "blocking" =>
            /\ PopTookItem => (cvFullWait' = {} /\ Len(queue') < max_size)
            /\ (PushHasRoom /\ ~done')
                  => \/ PushHasRoom'
                     \/ (PushAppendedItem /\ queue' = Append(queue, frameCount))
            /\ (PushAppendedItem /\ cvWait # {})
                  => \E t \in cvWait : cvWait' = cvWait \ {t}
            /\ (pcMain = "finish_notify" /\ pcMain' # pcMain) => cvWait' = {}
         ]_vars
    /\ \A w \in Writers : (impl = "blocking" /\ w \in cvWait) ~> (w \notin cvWait)
    /\ (impl = "blocking" /\ GenThread \in cvFullWait) ~> (GenThread \notin cvFullWait)

\* On the open blocking queue a push that had to wait has appended its item
\* after one pop, and the queue is full again.
C22_Witness ==
    /\ impl = "blocking"
    /\ ~done
    /\ pcGen = "count"
    /\ hist.pushBlocked
    /\ hist.pushAppended
    /\ Len(hist.handed) = 1
    /\ Len(queue) = max_size

\* C23 - Counters lose no update: when all threads have joined, the aggregate
\* written-count (imagesSaved, modular program) and the sum of the writers'
\* own counts both equal the number of successful sink calls, and
\* statsBytesWritten equals the sum of the sizes of the files they wrote; with
\* no sink failure that number is the number of items pop handed out.
C23_NoLostUpdate ==
    AllJoined =>
        /\ SumOver(imagesWritten, Writers) = hist.successes
        /\ impl = "evicting" => imagesSaved = hist.successes
        /\ statsBytesWritten = hist.bytesOut
        /\ hist.failures = 0 => hist.successes = Len(hist.handed)

\* Both writers have written, three frames in all without a failure, and the
\* run has ended.
C23_Witness ==
    /\ AllJoined
    /\ hist.failures = 0
    /\ hist.successes = MaxFrames
    /\ \A w \in Writers : imagesWritten[w] >= 1
    /\ statsBytesWritten > MaxFrames

\* The counters as they stand.
Counters ==
    [generated |-> statsImageCount, enqueued |-> imagesEnqueued,
     saved |-> imagesSaved, bytes |-> statsBytesWritten]

\* C24 - Main reads the counters for the final report only after the join of
\* all threads: whenever it is at or past the report the generator and every
\* writer have ended, before the report nothing has been read, and what it
\* read stays equal to the counters, so no counter is updated after the read.
C24_ReportAfterJoin ==
    /\ pcMain \in {"report", "exit"} =>
          (pcGen = "done" /\ \A w \in Writers : pcW[w] = "done")
    /\ pcMain # "exit" => reported = [generated |-> 0, enqueued |-> 0,
                                      saved |-> 0, bytes |-> 0]
    /\ pcMain = "exit" => reported = Counters

\* Main has printed a report of three generated frames, some of them written.
C24_Witness ==
    /\ pcMain = "exit"
    /\ reported.generated = MaxFrames
    /\ reported.bytes > 0
    /\ hist.successes >= 2

\* The positions of a writer that is Running (inside pop).
Running == PopPcs

\* C25 - Worker state machine: a writer leaves Running for Writing only by a
\* pop that returned the front item, leaves Writing only for Running and only
\* when its sink call has returned, leaves Running for Terminated only by a
\* pop that returned false (queue empty and finished), and once Terminated
\* stays so, popping nothing and calling the sink no more; the pops that
\* returned false are as many as the terminated writers.
C25_WorkerStateMachine ==
    [][/\ \A w \in Writers :
             /\ pcW[w] \in Running =>
                   \/ pcW'[w] \in Running
                   \/ /\ pcW'[w] = "write"
                      /\ pcW[w] = "pop_body"
                      /\ queue # <<>>
                      /\ data'[w] = Head(queue)
                      /\ hist'.handed = Append(hist.handed, data'[w])
                   \/ /\ pcW'[w] = "done"
                      /\ pcW[w] = "pop_body"
                      /\ queue = <<>> /\ done
                      /\ hist'.popFalse = hist.popFalse + 1
             /\ pcW[w] = "write" =>
                   \/ pcW'[w] = "write" /\ data'[w] = data[w]
                   \/ /\ pcW'[w] = "pop_lock"
                      /\ hist'.successes + hist'.failures
                            = hist.successes + hist.failures + 1
                      /\ data[w] \in hist'.sunk
             /\ pcW[w] = "done" =>
                   /\ pcW'[w] = "done"
                   /\ data'[w] = data[w]
                   /\ imagesWritten'[w] = imagesWritten[w]
                   /\ w \notin mutex'
       /\ hist'.popFalse = Cardinality({w \in Writers : pcW'[w] = "done"})
      ]_vars

\* One writer has terminated after a failed and a successful write, while the
\* other is still writing.
C25_Witness ==
    \E w, v \in Writers :
        /\ pcW[w] = "done"
        /\ w \in hist.recovered
        /\ pcW[v] = "write"
        /\ hist.popFalse = 1

C27_NoLockDuringIO ==
    /\ \A w \in Writers : pcW[w] = "write" => w \notin mutex
    /\ pcGen = "generate" => GenThread \notin mutex
    /\ Cardinality(mutex) <= 1
    /\ GenThread \in mutex => pcGen = "push_body"
    /\ \A w \in Writers : w \in mutex => pcW[w] = "pop_body"
    /\ MainThread \in mutex => pcMain = "finish_set"

\* While one writer is inside the sink and the generator is producing a
\* frame, another writer is inside pop, owning the mutex.
C27_Witness ==
    \E w, v \in Writers :
        /\ pcW[w] = "write"
        /\ pcGen = "generate"
        /\ pcW[v] = "pop_body"
        /\ mutex = {v}

\* C28 - The generator's loop ends on the wall clock, whatever the state of
\* the queue: once the duration has elapsed the generator starts no new
\* iteration (it generates and pushes nothing new), the clock does not go
\* back, and under fair scheduling the generator, after finishing the
\* iteration it may be in, reaches its end and stays there.
C28_LoopEndsOnClock ==
    /\ [][genExpired =>
            /\ genExpired'
            /\ pcGen = "loop" => pcGen' \in {"loop", "done"}
            /\ pcGen = "done" => pcGen' = "done"
         ]_vars
    /\ genExpired ~> (pcGen = "done")

\* The generator waited in push on the full blocking queue, and has ended on
\* its clock while the queue is full and main has not called finish().
C28_Witness ==
    /\ impl = "blocking"
    /\ pcGen = "done"
    /\ genExpired
    /\ hist.pushBlocked
    /\ Len(queue) = max_size
    /\ pcMain = "sleep"

\* C29 - As the comment on the modular push documents, push returns true if
\* the item was enqueued and false if the queue is full or finished: a push
\* that finds the queue full or finished returns false, and a push returns
\* true exactly when it leaves its item at the tail of the queue.
C29_PushResultAsDocumented ==
    [][(impl = "evicting" /\ pcGen = "push_body" /\ pcGen' = "count")
       => /\ (Len(queue) >= max_size \/ done) => pushRet' = "false"
          /\ pushRet' = "true" <=>
                (queue' # <<>> /\ queue'[Len(queue')] = frameCount)]_vars

\* C30 - The reported items-enqueued metric: in the report of the modular
\* program the number of enqueued items equals the number of push calls that
\* appended an item, and differs from the number of generated items by the
\* number of pushes rejected after finish().
C30_EnqueuedMetric ==
    (pcMain = "exit" /\ impl = "evicting") =>
        /\ reported.enqueued = Len(hist.appended)
        /\ reported.generated - reported.enqueued = hist.rejected

\* The writers main has started.
StartedWriters == {w \in Writers : pcW[w] # "unstarted"}

\* No queue is constructed and no thread has been started.
NothingStarted == ~cfg.constructed /\ pcGen = "unstarted" /\ StartedWriters = {}

\* C31 - Configuration errors stop the run before anything starts: whenever
\* the rate or the duration is <= 0, the worker count is outside 1..7, or the
\* width or height is <= 0, main has returned status 1 with no queue
\* constructed, no producer and no worker started; every early end of main
\* leaves nothing started; nothing is started before the arguments are all
\* accepted; and a run that got past start-up has its producer and exactly
\* the workers 1..workerCount started.
C31_ConfigErrorsStopRun ==
    /\ (\/ cfg.targetFPS <= 0
        \/ cfg.runTime <= 0
        \/ cfg.numWriterThreads \notin 1..7
        \/ cfg.imageWidth <= 0
        \/ cfg.imageHeight <= 0)
         => (pcMain = "return" /\ cfg.status = 1 /\ NothingStarted)
    /\ \A n \in (0 - 1)..9 : WritersRejected(n) <=> n \notin 1..7
    /\ pcMain \in {"args", "return", "terminate", "construct"} => NothingStarted
    /\ pcMain = "start_gen" => pcGen = "unstarted" /\ StartedWriters = {}
    /\ pcMain = "start_writers" =>
          /\ pcGen # "unstarted"
          /\ cfg.i <= cfg.numWriterThreads
          /\ StartedWriters = 1..cfg.i
    /\ pcMain \in {"sleep", "finish_lock", "finish_set", "finish_notify",
                   "join", "report", "exit"} =>
          /\ cfg.constructed
          /\ pcGen # "unstarted"
          /\ StartedWriters = 1..cfg.numWriterThreads

\* main has returned 1 on -writers 8 given after an accepted -fps value.
C31_Witness ==
    /\ pcMain = "return"
    /\ cfg.status = 1
    /\ cfg.numWriterThreads = MaxWriterThreads + 1
    /\ cfg.args = <<>>
    /\ NothingStarted

\* C32 - End-of-run accounting: when all tasks have joined, every generated
\* item is in exactly one class: written, failed in the sink, rejected by
\* push after finish(), or (evicting queue only) evicted by a later push;
\* items generated = items written + sink failures + rejected + evicted,
\* in the program's counters as well as item by item.
C32_EndOfRunAccounting ==
    AllJoined =>
        LET generated == Range(hist.generated)
            appended == Range(hist.appended)
            handed == Range(hist.handed)
            evicted == Range(hist.evicted)
            rejected == generated \ appended
        IN  /\ Cardinality(generated) = Len(hist.generated)
            /\ appended \subseteq generated
            /\ handed \cup evicted = appended
            /\ handed \cap evicted = {}
            /\ Cardinality(handed) = Len(hist.handed)
            /\ Cardinality(evicted) = Len(hist.evicted)
            /\ Cardinality(rejected) = hist.rejected
            /\ hist.sunk = handed
            /\ ~hist.sunkTwice
            /\ hist.successes + hist.failures = Len(hist.handed)
            /\ impl = "blocking" => evicted = {}
            /\ Len(hist.generated) = hist.successes + hist.failures
                                     + hist.rejected + Len(hist.evicted)
            /\ statsImageCount = ItemsWritten + hist.failures
                                 + hist.rejected + Len(hist.evicted)

\* A finished run of the evicting program with one item evicted, one written
\* and one failed in the sink.
C32_Witness ==
    /\ AllJoined
    /\ impl = "evicting"
    /\ Len(hist.generated) = 3
    /\ Len(hist.evicted) = 1
    /\ hist.successes = 1
    /\ hist.failures = 1

\* C33 - The queue is empty when the run ends: in every state where main has
\* called finish() and the generator and all writers have terminated, no item
\* is pending.  A writer terminates only on an empty finished queue and no
\* push appends after finish(): from the first writer's end on, the queue is
\* finished and empty.
C33_QueueEmptyAtExit ==
    /\ (/\ hist.finishCalls >= 1
        /\ pcGen = "done"
        /\ \A w \in Writers : pcW[w] = "done") => queue = <<>>
    /\ (\E w \in Writers : pcW[w] = "done") =>
          (done /\ hist.finishCalls >= 1 /\ queue = <<>>)

\* The run has ended with an empty queue that was full when finish() was
\* called.
C33_Witness ==
    /\ pcMain = "exit"
    /\ pcGen = "done"
    /\ \A w \in Writers : pcW[w] = "done"
    /\ Len(hist.pendingAtFinish) = max_size
    /\ queue = <<>>

\* Writer w can take a step towards a pop that looks at the queue: it is
\* about to call pop, inside pop with or for the mutex after a wake-up, or
\* in the sink, from which it goes back to pop.
RunnableWriter(w) ==
    \/ pcW[w] \in {"pop_lock", "pop_body", "write"}
    \/ pcW[w] = "pop_wait" /\ w \notin cvWait

\* C34 - No lost wake-up on the not-empty condition: there is no reachable
\* state in which the queue holds an item, some writer is blocked in pop's
\* cv.wait and no writer is runnable or going to call pop again; and once
\* finish() has returned no writer is blocked in pop's cv.wait.
C34_NoLostWakeup ==
    /\ (queue # <<>> /\ cvWait # {}) => \E w \in Writers : RunnableWriter(w)
    /\ FinishReturned => cvWait = {}

\* An item is pending while one writer is still blocked in cv.wait and the
\* other, released by the push's notify_one, has not yet taken the mutex.
C34_Witness ==
    /\ Len(queue) = 1
    /\ \E w, v \in Writers :
          /\ w # v
          /\ w \in cvWait
          /\ pcW[v] = "pop_wait"
          /\ v \notin cvWait
    /\ ~done

C36_FalsePopChangesNothing ==
    [][/\ \A w \in Writers :
            (pcW[w] \in PopPcs /\ pcW'[w] # pcW[w] /\ pcW'[w] # "write")
            => /\ queue' = queue
               /\ done' = done
               /\ data'[w] = data[w]
               /\ cvFullWait' = cvFullWait
       /\ \A w \in Writers :
            (pcW[w] = "pop_body" /\ pcW'[w] = "done")
            => (queue = <<>> /\ done /\ hist'.popFalse = hist.popFalse + 1)
       /\ obs' # obs
            => /\ queue' = queue
               /\ done' = done
               /\ cvWait' = cvWait
               /\ cvFullWait' = cvFullWait
       /\ (obs.pc = "size_body" /\ obs'.pc = "returned") => obs'.size = Len(queue)
       /\ (obs.pc = "idle" /\ obs'.pc = "returned") => obs'.isDone = done]_vars

\* A writer's pop has returned false, its item still the last frame it wrote,
\* and a caller of isDone() has been told the queue is finished.
C36_Witness ==
    /\ \E w \in Writers : pcW[w] = "done" /\ data[w] = 2
    /\ hist.popFalse >= 1
    /\ obs.pc = "returned"
    /\ obs.isDone

====
